---- MODULE Spec2Model ----
\* Model of bisheng's FlowService (src/backend/bisheng/api/services/flow.py):
\* the flow-version lifecycle operations over the version store, and the
\* concurrent node comparison (compare_flow_node / exec_flow_node).
EXTENDS Integers, Sequences, FiniteSets, TLC

\* ---------------------------------------------------------------------
\* Bounds
\* ---------------------------------------------------------------------
\* number of versions create_new_version may add on top of the initial ones
MaxNew == 1

\* ---------------------------------------------------------------------
\* Values
\* ---------------------------------------------------------------------
\* Python's None, for optional string fields and arguments
PyNone == "<None>"
\* Python truthiness of an optional string: None and "" are falsy
Truthy(x) == x # PyNone /\ x # ""

FlowIds == {1, 2}
NumFlows == Cardinality(FlowIds)
\* flow ids a caller may pass; 0 is an id no flow has
FlowArgs == 0..NumFlows
\* version ids a caller may pass; some never exist, some are deleted
VersionArgs == 1..(NumFlows + MaxNew)
Users == {"owner", "guest"}
Names == {"a", "b"}

\* request bodies of create_new_version: FlowVersionCreate with a name
CreateBodies ==
    { [name |-> n, description |-> "d0", data |-> "g0"] : n \in Names }
\* request bodies of update_version_info: every field is optional
UpdateBodies ==
    { [name |-> n, description |-> PyNone, data |-> PyNone] : n \in Names }
NoBody == [name |-> PyNone, description |-> PyNone, data |-> PyNone]

VARIABLES
    flow_status,   \* Flow.status of every flow in the store
    versions,      \* the FlowVersion rows of the store
    next_id,       \* the store's auto-increment version id
    last           \* the last service call and the response it returned

vmvars == <<flow_status, versions, next_id, last>>

VARIABLES
    req,            \* the FlowCompareReq being served
    node_data,      \* the list object held by req.inputs['data']
    cmp_pc,         \* where compare_flow_node stands
    res,            \* the output array of compare_flow_node
    version_infos,  \* the rows fetched at line 219
    tasks,          \* the exec_flow_node task of every question
    gather,         \* the future of asyncio.gather
    response,       \* what compare_flow_node returned
    exec_calls,     \* the process_graph_cached calls issued so far
    store_queried,  \* whether the version store was read for the comparison
    inputs_objs,    \* the dict objects: 0 is req.inputs, i the dict of task i
    exec_count      \* how many process_graph_cached calls were issued

cmpvars == <<req, node_data, cmp_pc, res, version_infos, tasks, gather,
             response, exec_calls, store_queried, inputs_objs, exec_count>>

vars == <<flow_status, versions, next_id, last, req, node_data, cmp_pc, res,
          version_infos, tasks, gather, response, exec_calls, store_queried,
          inputs_objs, exec_count>>

VARIABLES
    norm,   \* a process_graph_cached result and the answer taken from it
    race    \* two service calls in flight at once, each between store steps

auxvars == <<norm, race>>

allvars == <<vars, norm, race>>

\* ---------------------------------------------------------------------
\* The store (FlowDao / FlowVersionDao) and access control
\* ---------------------------------------------------------------------
\* a lookup that finds nothing
NotFound == [none |-> TRUE]

\* every flow of the store is owned by "owner"
FlowDao_get_flow_by_id(flow_id) ==
    IF flow_id \in FlowIds
    THEN [id |-> flow_id, user_id |-> "owner", status |-> flow_status[flow_id]]
    ELSE NotFound

FlowVersionDao_get_version_by_id(version_id) ==
    IF \E v \in versions : v.id = version_id
    THEN CHOOSE v \in versions : v.id = version_id
    ELSE NotFound

FlowVersionDao_get_version_by_name(flow_id, name) ==
    IF \E v \in versions : v.flow_id = flow_id /\ v.name = name
    THEN CHOOSE v \in versions : v.flow_id = flow_id /\ v.name = name
    ELSE NotFound

FlowVersionDao_delete_flow_version(version_id) ==
    { v \in versions : v.id # version_id }

\* the transactional swap: the current version of flow_id is switched off and
\* the target row is switched on
FlowVersionDao_change_current_version(flow_id, version_info) ==
    { IF v.id = version_info.id THEN [v EXCEPT !.is_current = TRUE]
      ELSE IF v.flow_id = flow_id THEN [v EXCEPT !.is_current = FALSE]
      ELSE v : v \in versions }

\* a new row gets the next id and is not current
FlowVersionDao_create_version(flow_version) ==
    versions \cup { [id |-> next_id, flow_id |-> flow_version.flow_id,
                     name |-> flow_version.name,
                     description |-> flow_version.description,
                     data |-> flow_version.data, is_current |-> FALSE] }

FlowVersionDao_update_version(version_info) ==
    { IF v.id = version_info.id THEN version_info ELSE v : v \in versions }

\* UserPayload.access_check: the owner of a flow has write access to it
access_check(user, owner_user_id, flow_id) == user = owner_user_id

\* FlowStatus.ONLINE
ONLINE == "ONLINE"
DRAFT == "DRAFT"

\* ---------------------------------------------------------------------
\* FlowService: version lifecycle
\* ---------------------------------------------------------------------
\* the call just served: its arguments, the line of flow.py that returned and
\* the response returned there
Respond(op, user, flow_id, version_id, body, line, resp) ==
    last' = [op |-> op, user |-> user, flow_id |-> flow_id,
             version_id |-> version_id, body |-> body, line |-> line,
             resp |-> resp]

\* delete_version without the is_current test of line 57
delete_version_no_current_test(user, version_id) ==
    LET version_info == FlowVersionDao_get_version_by_id(version_id)
        flow_info == FlowDao_get_flow_by_id(version_info.flow_id)
        R(line, resp) ==
            Respond("delete_version", user, 0, version_id, NoBody, line, resp)
    IN  /\ UNCHANGED <<flow_status, next_id>>
        /\ IF version_info = NotFound
           THEN R(47, "NotFoundVersionError") /\ UNCHANGED versions
           ELSE IF flow_info = NotFound
           THEN R(51, "NotFoundFlowError") /\ UNCHANGED versions
           ELSE IF ~access_check(user, flow_info.user_id, flow_info.id)
           THEN R(55, "UnAuthorizedError") /\ UNCHANGED versions
           ELSE /\ versions' = FlowVersionDao_delete_flow_version(version_id)
                /\ R(61, "resp_200")

delete_version(user, version_id) ==
    LET version_info == FlowVersionDao_get_version_by_id(version_id)
        flow_info == FlowDao_get_flow_by_id(version_info.flow_id)
        R(line, resp) ==
            Respond("delete_version", user, 0, version_id, NoBody, line, resp)
    IN  /\ UNCHANGED <<flow_status, next_id>>
        /\ IF version_info = NotFound
           THEN R(47, "NotFoundVersionError") /\ UNCHANGED versions
           ELSE IF flow_info = NotFound
           THEN R(51, "NotFoundFlowError") /\ UNCHANGED versions
           ELSE IF ~access_check(user, flow_info.user_id, flow_info.id)
           THEN R(55, "UnAuthorizedError") /\ UNCHANGED versions
           ELSE IF version_info.is_current
           THEN R(58, "CurVersionDelError") /\ UNCHANGED versions
           ELSE /\ versions' = FlowVersionDao_delete_flow_version(version_id)
                /\ R(61, "resp_200")

\* change_current_version without the early return of lines 84-85
change_current_version_no_early_return(user, flow_id, version_id) ==
    LET flow_info == FlowDao_get_flow_by_id(flow_id)
        version_info == FlowVersionDao_get_version_by_id(version_id)
        R(line, resp) == Respond("change_current_version", user, flow_id,
                                 version_id, NoBody, line, resp)
    IN  /\ UNCHANGED <<flow_status, next_id>>
        /\ IF flow_info = NotFound
           THEN R(70, "NotFoundFlowError") /\ UNCHANGED versions
           ELSE IF ~access_check(user, flow_info.user_id, flow_info.id)
           THEN R(74, "UnAuthorizedError") /\ UNCHANGED versions
           ELSE IF flow_info.status = ONLINE
           THEN R(78, "FlowOnlineEditError") /\ UNCHANGED versions
           ELSE IF version_info = NotFound
           THEN R(83, "NotFoundVersionError") /\ UNCHANGED versions
           ELSE /\ versions' =
                       FlowVersionDao_change_current_version(flow_id, version_info)
                /\ R(89, "resp_200")

change_current_version(user, flow_id, version_id) ==
    LET flow_info == FlowDao_get_flow_by_id(flow_id)
        version_info == FlowVersionDao_get_version_by_id(version_id)
        R(line, resp) == Respond("change_current_version", user, flow_id,
                                 version_id, NoBody, line, resp)
    IN  /\ UNCHANGED <<flow_status, next_id>>
        /\ IF flow_info = NotFound
           THEN R(70, "NotFoundFlowError") /\ UNCHANGED versions
           ELSE IF ~access_check(user, flow_info.user_id, flow_info.id)
           THEN R(74, "UnAuthorizedError") /\ UNCHANGED versions
           ELSE IF flow_info.status = ONLINE
           THEN R(78, "FlowOnlineEditError") /\ UNCHANGED versions
           ELSE IF version_info = NotFound
           THEN R(83, "NotFoundVersionError") /\ UNCHANGED versions
           ELSE IF version_info.is_current
           THEN R(85, "resp_200") /\ UNCHANGED versions
           ELSE /\ versions' =
                       FlowVersionDao_change_current_version(flow_id, version_info)
                /\ R(89, "resp_200")

\* create_new_version without the name lookup of lines 105-107
create_new_version_no_name_test(user, flow_id, flow_version) ==
    LET flow_info == FlowDao_get_flow_by_id(flow_id)
        R(line, resp) == Respond("create_new_version", user, flow_id, 0,
                                 flow_version, line, resp)
    IN  /\ UNCHANGED flow_status
        /\ IF flow_info = NotFound
           THEN R(99, "NotFoundFlowError") /\ UNCHANGED <<versions, next_id>>
           ELSE IF ~access_check(user, flow_info.user_id, flow_info.id)
           THEN R(103, "UnAuthorizedError") /\ UNCHANGED <<versions, next_id>>
           ELSE /\ next_id <= NumFlows + MaxNew
                /\ versions' = FlowVersionDao_create_version(
                       [flow_id |-> flow_id, name |-> flow_version.name,
                        description |-> flow_version.description,
                        data |-> flow_version.data])
                /\ next_id' = next_id + 1
                /\ R(113, "resp_200")

create_new_version(user, flow_id, flow_version) ==
    LET flow_info == FlowDao_get_flow_by_id(flow_id)
        exist_version ==
            FlowVersionDao_get_version_by_name(flow_id, flow_version.name)
        R(line, resp) == Respond("create_new_version", user, flow_id, 0,
                                 flow_version, line, resp)
    IN  /\ UNCHANGED flow_status
        /\ IF flow_info = NotFound
           THEN R(99, "NotFoundFlowError") /\ UNCHANGED <<versions, next_id>>
           ELSE IF ~access_check(user, flow_info.user_id, flow_info.id)
           THEN R(103, "UnAuthorizedError") /\ UNCHANGED <<versions, next_id>>
           ELSE IF exist_version # NotFound
           THEN R(107, "VersionNameExistsError") /\ UNCHANGED <<versions, next_id>>
           ELSE /\ next_id <= NumFlows + MaxNew
                /\ versions' = FlowVersionDao_create_version(
                       [flow_id |-> flow_id, name |-> flow_version.name,
                        description |-> flow_version.description,
                        data |-> flow_version.data])
                /\ next_id' = next_id + 1
                /\ R(113, "resp_200")

\* lines 137-141 moved ahead of the test of line 134
update_version_info_write_before_lock(user, version_id, flow_version) ==
    LET version_info == FlowVersionDao_get_version_by_id(version_id)
        flow_info == FlowDao_get_flow_by_id(version_info.flow_id)
        R(line, resp) == Respond("update_version_info", user, 0, version_id,
                                 flow_version, line, resp)
        updated == FlowVersionDao_update_version(
                       [version_info EXCEPT
                           !.name = IF Truthy(flow_version.name)
                                    THEN flow_version.name ELSE @,
                           !.description = IF Truthy(flow_version.description)
                                           THEN flow_version.description ELSE @,
                           !.data = IF Truthy(flow_version.data)
                                    THEN flow_version.data ELSE @])
    IN  /\ UNCHANGED <<flow_status, next_id>>
        /\ IF version_info = NotFound
           THEN R(124, "NotFoundVersionError") /\ UNCHANGED versions
           ELSE IF flow_info = NotFound
           THEN R(127, "NotFoundFlowError") /\ UNCHANGED versions
           ELSE IF ~access_check(user, flow_info.user_id, flow_info.id)
           THEN R(131, "UnAuthorizedError") /\ UNCHANGED versions
           ELSE IF version_info.is_current /\ flow_info.status = ONLINE
           THEN R(135, "FlowOnlineEditError") /\ versions' = updated
           ELSE versions' = updated /\ R(142, "resp_200")

update_version_info(user, version_id, flow_version) ==
    LET version_info == FlowVersionDao_get_version_by_id(version_id)
        flow_info == FlowDao_get_flow_by_id(version_info.flow_id)
        R(line, resp) == Respond("update_version_info", user, 0, version_id,
                                 flow_version, line, resp)
    IN  /\ UNCHANGED <<flow_status, next_id>>
        /\ IF version_info = NotFound
           THEN R(124, "NotFoundVersionError") /\ UNCHANGED versions
           ELSE IF flow_info = NotFound
           THEN R(127, "NotFoundFlowError") /\ UNCHANGED versions
           ELSE IF ~access_check(user, flow_info.user_id, flow_info.id)
           THEN R(131, "UnAuthorizedError") /\ UNCHANGED versions
           ELSE IF version_info.is_current /\ flow_info.status = ONLINE
           THEN R(135, "FlowOnlineEditError") /\ UNCHANGED versions
           ELSE /\ versions' = FlowVersionDao_update_version(
                       [version_info EXCEPT
                           !.name = IF Truthy(flow_version.name)
                                    THEN flow_version.name ELSE @,
                           !.description = IF Truthy(flow_version.description)
                                           THEN flow_version.description ELSE @,
                           !.data = IF Truthy(flow_version.data)
                                    THEN flow_version.data ELSE @])
                /\ R(142, "resp_200")

\* every flow starts with one version, its current one
InitVersions ==
    { [id |-> f, flow_id |-> f, name |-> "a", description |-> "d0",
       data |-> "g0", is_current |-> TRUE] : f \in FlowIds }

NoCall == [op |-> "init", user |-> "owner", flow_id |-> 0, version_id |-> 0,
           body |-> NoBody, line |-> 0, resp |-> "resp_200"]

\* ---------------------------------------------------------------------
\* Python values of the comparison
\* ---------------------------------------------------------------------
PStr(s) == [type |-> "str", val |-> s]
PDict(items) == [type |-> "dict", items |-> items]
PObject(attrs) == [type |-> "object", attrs |-> attrs]
\* an instance of a dict subclass that also carries attributes
PDictObject(items, attrs) ==
    [type |-> "dictobj", items |-> items, attrs |-> attrs]
\* an Optional[List]: None, or a list
NoneList == [present |-> FALSE, items |-> <<>>]
PList(items) == [present |-> TRUE, items |-> items]

\* a dict is the sequence of its <<key, value>> items, in key order
HasKey(d, k) == \E i \in DOMAIN d : d[i][1] = k
Lookup(d, k) == d[CHOOSE i \in DOMAIN d : d[i][1] = k][2]
Without(d, k) == SelectSeq(d, LAMBDA kv : kv[1] # k)
EmptyMap == <<>>
\* inputs.get('data') is not None
HasData(inputs) == HasKey(inputs, "data") /\ Lookup(inputs, "data") # PyNone
\* isinstance(v, dict)
IsDict(v) == v.type \in {"dict", "dictobj"}
\* hasattr(v, a)
HasAttr(v, a) == v.type \in {"object", "dictobj"} /\ HasKey(v.attrs, a)

\* ---------------------------------------------------------------------
\* Comparison requests
\* ---------------------------------------------------------------------
\* longest question_list of a request
MaxQuestions == 2

AllQuestions == <<"q1", "q2", "q3", "q4">>
\* an id no version row has
MissingId == NumFlows + 1
\* the value of inputs['data']: a reference to the list object node_data
DataRef == "*data"

InputFileRecord == [nodeId |-> "InputFileNode-1", value |-> "f.pdf",
                    id |-> PyNone, file_path |-> PyNone]
VariableRecord == [nodeId |-> "VariableNode-2", value |-> "v",
                   id |-> PyNone, file_path |-> PyNone]

\* input templates: the inputs dict and the list its 'data' key refers to
Templates ==
    { [inputs |-> << <<"input", "x">> >>, data |-> <<>>],
      [inputs |-> << <<"id", "n1">>, <<"data", DataRef>>, <<"query", "x">>,
                     <<"input", "y">> >>,
       data |-> <<InputFileRecord, VariableRecord>>],
      [inputs |-> << <<"data", DataRef>>, <<"id", "n1">> >>,
       data |-> <<VariableRecord>>],
      [inputs |-> << <<"input", "x">>, <<"data", DataRef>> >>, data |-> <<>>],
      [inputs |-> << <<"input", "x">>, <<"data", PyNone>> >>, data |-> <<>>] }

QuestionLists ==
    {NoneList} \cup { PList(SubSeq(AllQuestions, 1, n)) : n \in 0..MaxQuestions }
VersionLists ==
    {NoneList} \cup { PList(l) : l \in { <<>>, <<1>>, <<1, 2>>,
                                         <<MissingId, 1>>, <<MissingId>> } }

Requests ==
    { [question_list |-> ql, version_list |-> vl, node_id |-> n,
       inputs |-> t.inputs, data |-> t.data] :
        ql \in QuestionLists, vl \in VersionLists, n \in {PyNone, "n1"},
        t \in Templates }

\* ---------------------------------------------------------------------
\* Collaborators of the comparison
\* ---------------------------------------------------------------------
\* FlowVersionDao.get_list_by_ids: the rows that exist, the others left out
FlowVersionDao_get_list_by_ids(ids) ==
    LET present == SelectSeq(ids, LAMBDA id : \E v \in versions : v.id = id)
    IN  [i \in DOMAIN present |-> FlowVersionDao_get_version_by_id(present[i])]

\* 'InputFile' in id
ContainsInputFile(id) == id \in {"InputFileNode-1"}

\* bisheng.chat.utils.process_node_data: node id -> parameter overrides
process_node_data(data) ==
    { [id |-> data[i].id, value |-> data[i].value,
       file_path |-> data[i].file_path] : i \in DOMAIN data }

\* bisheng.processing.process.process_tweaks: graph data with tweaks applied
process_tweaks(data, tweaks) == [data |-> data, tweaks |-> tweaks]

\* the answer GraphExecutor computes from a graph and an input set
Answer(graph_data, inputs, flow_id) ==
    [type |-> "answer", graph |-> graph_data, inputs |-> inputs,
     flow_id |-> flow_id]

\* texts of the exceptions process_graph_cached may raise
ExecErrors == {"e1", "e2"}

Returned(value) == [kind |-> "return", value |-> value, text |-> ""]
Raised(text) == [kind |-> "raise", value |-> PStr(""), text |-> text]

\* what one process_graph_cached call may do: the two recognised shapes,
\* other shapes, or an exception
ExecOutcomes(graph_data, inputs, flow_id) ==
    LET ans == Answer(graph_data, inputs, flow_id)
    IN  { Returned(PDict(<< <<"result", PDict(<< <<"a", ans>> >>)>> >>)),
          Returned(PDict(<< <<"result", PDict(<< <<"a", ans>>,
                                                <<"b", PStr("other")>> >>)>> >>)),
          Returned(PObject(<< <<"result", PDict(<< <<"a", ans>> >>)>>,
                              <<"session_id", PStr(PyNone)>> >>)),
          Returned(PDict(<< <<"result", PDict(<<>>)>> >>)),
          Returned(PDict(<< <<"result", PStr("text")>> >>)),
          Returned(PDict(<< <<"error", PStr("x")>> >>)),
          Returned(PStr("oops")) }
        \cup { Raised(e) : e \in ExecErrors }

\* ---------------------------------------------------------------------
\* FlowService.compare_flow_node and FlowService.exec_flow_node
\* ---------------------------------------------------------------------
NoExc == [at |-> "none", text |-> ""]
Sentinel == PStr("flow exec error")

resp_200(data) == [status_code |-> 200, data |-> data]
resp_500(message) == [status_code |-> 500, message |-> message]
NoResponse == [status_code |-> 0]

\* lines 212-215 without the InputFile test of line 214
Preprocess_every_node(one) ==
    LET withId == [one EXCEPT !.id = one.nodeId]
    IN  [withId EXCEPT !.file_path = withId.value]

\* lines 212-215, for one record of inputs['data']
Preprocess(one) ==
    LET withId == [one EXCEPT !.id = one.nodeId]
    IN  IF ContainsInputFile(withId.id)
        THEN [withId EXCEPT !.file_path = withId.value]
        ELSE withId

\* line 224 without copy(): every task works on the dict of the request
CopyRef_alias(index) == 0

\* line 224: req.inputs.copy() gives the task of `index` a dict object of
\* its own
CopyRef(index) == index

\* line 225: tmp_inputs is the reference to the task's dict object
NewTask(index, question, tmp_inputs) ==
    [pc |-> "created", index |-> index, question |-> question,
     inputs |-> tmp_inputs, tweaks |-> {}, answer_result |-> EmptyMap,
     k |-> 0, exc |-> NoExc, rank |-> 0, after_return |-> FALSE]

\* compare_flow_node without the node_id test of lines 207-208
compare_flow_node_no_node_id_test ==
    /\ cmp_pc = "called"
    /\ UNCHANGED <<req, exec_calls, exec_count>>
    /\ IF \/ ~req.question_list.present
          \/ Len(req.question_list.items) = 0
          \/ ~req.version_list.present
          \/ Len(req.version_list.items) = 0
       THEN /\ response' = resp_200(<<>>)
            /\ cmp_pc' = "returned"
            /\ UNCHANGED <<node_data, res, version_infos, tasks, gather,
                           store_queried, inputs_objs>>
       ELSE /\ node_data' =
                   IF HasData(req.inputs) /\ Len(node_data) > 0
                   THEN [i \in DOMAIN node_data |-> Preprocess(node_data[i])]
                   ELSE node_data
            /\ res' = [i \in 1..Len(req.question_list.items) |-> EmptyMap]
            /\ version_infos' =
                   FlowVersionDao_get_list_by_ids(req.version_list.items)
            /\ store_queried' = TRUE
            /\ inputs_objs' = [r \in 0..Len(req.question_list.items) |->
                                  inputs_objs[0]]
            /\ tasks' = [index \in 1..Len(req.question_list.items) |->
                            NewTask(index, req.question_list.items[index],
                                    CopyRef(index))]
            /\ gather' = [state |-> "pending", exc |-> NoExc]
            /\ cmp_pc' = "awaiting"
            /\ UNCHANGED response

\* lines 203-229, up to the await on gather
compare_flow_node ==
    /\ cmp_pc = "called"
    /\ UNCHANGED <<req, exec_calls, exec_count>>
    /\ IF \/ ~req.question_list.present
          \/ Len(req.question_list.items) = 0
          \/ ~req.version_list.present
          \/ Len(req.version_list.items) = 0
          \/ req.node_id = PyNone
       THEN /\ response' = resp_200(<<>>)
            /\ cmp_pc' = "returned"
            /\ UNCHANGED <<node_data, res, version_infos, tasks, gather,
                           store_queried, inputs_objs>>
       ELSE /\ node_data' =
                   IF HasData(req.inputs) /\ Len(node_data) > 0
                   THEN [i \in DOMAIN node_data |-> Preprocess(node_data[i])]
                   ELSE node_data
            /\ res' = [i \in 1..Len(req.question_list.items) |-> EmptyMap]
            /\ version_infos' =
                   FlowVersionDao_get_list_by_ids(req.version_list.items)
            /\ store_queried' = TRUE
            /\ inputs_objs' = [r \in 0..Len(req.question_list.items) |->
                                  inputs_objs[0]]
            /\ tasks' = [index \in 1..Len(req.question_list.items) |->
                            NewTask(index, req.question_list.items[index],
                                    CopyRef(index))]
            /\ gather' = [state |-> "pending", exc |-> NoExc]
            /\ cmp_pc' = "awaiting"
            /\ UNCHANGED response

\* asyncio.gather settling as soon as any one task has finished
gather_done_callback_first(g, ts, i) ==
    IF g.state # "pending" THEN g
    ELSE IF ts[i].pc = "raised" THEN [state |-> "exception", exc |-> ts[i].exc]
    ELSE [state |-> "result", exc |-> NoExc]

\* asyncio.gather without return_exceptions, when task i has just finished:
\* the first exception settles the future, else the last result does
gather_done_callback(g, ts, i) ==
    IF g.state # "pending" THEN g
    ELSE IF ts[i].pc = "raised" THEN [state |-> "exception", exc |-> ts[i].exc]
    ELSE IF \A j \in DOMAIN ts : ts[j].pc = "done"
         THEN [state |-> "result", exc |-> NoExc]
    ELSE g

\* compare_flow_node whose except clause swallows the exception
compare_flow_node_resume_swallow ==
    /\ cmp_pc = "awaiting"
    /\ gather.state # "pending"
    /\ response' = resp_200(res)
    /\ cmp_pc' = "returned"
    /\ UNCHANGED <<req, node_data, res, version_infos, tasks, gather,
                   exec_calls, store_queried, inputs_objs, exec_count>>

\* lines 228-232, once gather has settled
compare_flow_node_resume ==
    /\ cmp_pc = "awaiting"
    /\ gather.state # "pending"
    /\ response' = IF gather.state = "exception"
                   THEN resp_500([prefix |-> "compare error",
                                  cause |-> gather.exc.text])
                   ELSE resp_200(res)
    /\ cmp_pc' = "returned"
    /\ UNCHANGED <<req, node_data, res, version_infos, tasks, gather,
                   exec_calls, store_queried, inputs_objs, exec_count>>

\* lines 239-245 without the break
Substitute_every_field(inputs, question) ==
    [p \in DOMAIN inputs |->
        IF inputs[p][1] \in {"data", "id"} THEN inputs[p]
        ELSE <<inputs[p][1], question>>]

\* lines 239-245: the question replaces the first field that is not data/id
Substitute(inputs, question) ==
    IF \E i \in DOMAIN inputs : inputs[i][1] \notin {"data", "id"}
    THEN LET first == CHOOSE i \in DOMAIN inputs :
                         /\ inputs[i][1] \notin {"data", "id"}
                         /\ \A j \in 1..(i - 1) : inputs[j][1] \in {"data", "id"}
         IN  [inputs EXCEPT ![first] = <<inputs[first][1], question>>]
    ELSE inputs

\* line 270 with the index of the last task, as a late-bound loop variable
\* would give
WriteSlot_last_index(r, index, answer_result) ==
    [r EXCEPT ![Len(r)] = answer_result]

\* line 270
WriteSlot(r, index, answer_result) == [r EXCEPT ![index] = answer_result]

\* lines 255-259 with one session shared by all calls
ExecCall_shared_session(index, one, inputs, tweaks) ==
    [index |-> index, version_id |-> one.id, flow_id |-> one.flow_id,
     graph_data |-> process_tweaks(one.data, tweaks), inputs |-> inputs,
     session_id |-> "compare", history_count |-> 10]

\* the process_graph_cached call of lines 254-259 for version `one`
ExecCall(index, one, inputs, tweaks) ==
    [index |-> index, version_id |-> one.id, flow_id |-> one.flow_id,
     graph_data |-> process_tweaks(one.data, tweaks), inputs |-> inputs,
     session_id |-> PyNone, history_count |-> 10]

Finished(ts) == Cardinality({ j \in DOMAIN ts : ts[j].pc \in {"done", "raised"} })

\* a task ends, with its slot written (done) or with an exception (raised)
EndTask(i, t) ==
    LET ts == [tasks EXCEPT
                 ![i] = [t EXCEPT !.rank = Finished(tasks) + 1,
                                  !.after_return = (cmp_pc = "returned")]]
    IN  /\ tasks' = ts
        /\ gather' = gather_done_callback(gather, ts, i)

\* exec_flow_node that takes versions[0] for granted and fails without it
exec_flow_node_needs_versions(i) ==
    /\ i \in DOMAIN tasks
    /\ tasks[i].pc = "created"
    /\ UNCHANGED <<req, node_data, cmp_pc, version_infos, response,
                   store_queried>>
    /\ LET t == tasks[i]
           substituted == Substitute(inputs_objs[t.inputs], t.question)
           hasData == HasData(substituted)
           inputs == IF hasData THEN Without(substituted, "data")
                     ELSE substituted
           tweaks == IF hasData THEN process_node_data(node_data) ELSE {}
           started == [t EXCEPT !.tweaks = tweaks]
       IN  /\ inputs_objs' = [inputs_objs EXCEPT ![t.inputs] = inputs]
           /\ IF Len(version_infos) = 0
              THEN /\ EndTask(i, [started EXCEPT !.pc = "raised",
                                     !.exc = [at |-> "line 253",
                                              text |-> "IndexError"]])
                   /\ UNCHANGED <<res, exec_calls, exec_count>>
              ELSE /\ tasks' = [tasks EXCEPT
                                  ![i] = [started EXCEPT !.pc = "awaiting",
                                                         !.k = 1]]
                   /\ exec_calls' = exec_calls \cup
                          {ExecCall(t.index, version_infos[1], inputs, tweaks)}
                   /\ exec_count' = exec_count + 1
                   /\ UNCHANGED <<res, gather>>

\* lines 237-259: a task runs from its start to its first await
exec_flow_node(i) ==
    /\ i \in DOMAIN tasks
    /\ tasks[i].pc = "created"
    /\ UNCHANGED <<req, node_data, cmp_pc, version_infos, response,
                   store_queried>>
    /\ LET t == tasks[i]
           substituted == Substitute(inputs_objs[t.inputs], t.question)
           hasData == HasData(substituted)
           inputs == IF hasData THEN Without(substituted, "data")
                     ELSE substituted
           tweaks == IF hasData THEN process_node_data(node_data) ELSE {}
           started == [t EXCEPT !.tweaks = tweaks]
       IN  /\ inputs_objs' = [inputs_objs EXCEPT ![t.inputs] = inputs]
           /\ IF Len(version_infos) = 0
              THEN /\ res' = WriteSlot(res, t.index, t.answer_result)
                   /\ EndTask(i, [started EXCEPT !.pc = "done"])
                   /\ UNCHANGED <<exec_calls, exec_count>>
              ELSE /\ tasks' = [tasks EXCEPT
                                  ![i] = [started EXCEPT !.pc = "awaiting",
                                                         !.k = 1]]
                   /\ exec_calls' = exec_calls \cup
                          {ExecCall(t.index, version_infos[1], inputs, tweaks)}
                   /\ exec_count' = exec_count + 1
                   /\ UNCHANGED <<res, gather>>

\* lines 260-268 with the two tests in the other order
Normalize_facets_first(result) ==
    LET task_result ==
            IF HasAttr(result, "result") /\ HasAttr(result, "session_id")
            THEN Lookup(result.attrs, "result")
            ELSE IF IsDict(result) /\ HasKey(result.items, "result")
            THEN Lookup(result.items, "result")
            ELSE PDict(<< <<"answer", Sentinel>> >>)
    IN  IF ~IsDict(task_result)
        THEN Raised("AttributeError")
        ELSE IF Len(task_result.items) = 0
        THEN Raised("IndexError")
        ELSE Returned(task_result.items[1][2])

\* lines 260-268: the answer taken from what process_graph_cached returned;
\* line 268 raises when task_result has no values() or no first value
Normalize(result) ==
    LET task_result ==
            IF IsDict(result) /\ HasKey(result.items, "result")
            THEN Lookup(result.items, "result")
            ELSE IF HasAttr(result, "result") /\ HasAttr(result, "session_id")
            THEN Lookup(result.attrs, "result")
            ELSE PDict(<< <<"answer", Sentinel>> >>)
    IN  IF ~IsDict(task_result)
        THEN Raised("AttributeError")
        ELSE IF Len(task_result.items) = 0
        THEN Raised("IndexError")
        ELSE Returned(task_result.items[1][2])

\* exec_flow_node with line 270 inside the loop over the versions
exec_flow_node_resume_write_in_loop(i, o) ==
    /\ i \in DOMAIN tasks
    /\ tasks[i].pc = "awaiting"
    /\ UNCHANGED <<req, node_data, cmp_pc, version_infos, response,
                   store_queried, inputs_objs>>
    /\ LET t == tasks[i]
           one == version_infos[t.k]
           n == IF o.kind = "return" THEN Normalize(o.value) ELSE o
           answer_result == (one.id :> n.value) @@ t.answer_result
       IN  IF o.kind = "raise"
           THEN /\ EndTask(i, [t EXCEPT !.pc = "raised",
                                  !.exc = [at |-> "process_graph_cached",
                                           text |-> o.text]])
                /\ UNCHANGED <<res, exec_calls, exec_count>>
           ELSE IF n.kind = "raise"
           THEN /\ EndTask(i, [t EXCEPT !.pc = "raised",
                                  !.exc = [at |-> "line 268", text |-> n.text]])
                /\ UNCHANGED <<res, exec_calls, exec_count>>
           ELSE IF t.k < Len(version_infos)
           THEN /\ tasks' = [tasks EXCEPT
                               ![i] = [t EXCEPT !.answer_result = answer_result,
                                                !.k = t.k + 1]]
                /\ exec_calls' = exec_calls \cup
                       {ExecCall(t.index, version_infos[t.k + 1],
                                 inputs_objs[t.inputs], t.tweaks)}
                /\ exec_count' = exec_count + 1
                /\ res' = WriteSlot(res, t.index, answer_result)
                /\ UNCHANGED gather
           ELSE /\ res' = WriteSlot(res, t.index, answer_result)
                /\ EndTask(i, [t EXCEPT !.answer_result = answer_result,
                                        !.pc = "done"])
                /\ UNCHANGED <<exec_calls, exec_count>>

\* lines 255-270: the awaited call of task i completes with outcome o
exec_flow_node_resume(i, o) ==
    /\ i \in DOMAIN tasks
    /\ tasks[i].pc = "awaiting"
    /\ UNCHANGED <<req, node_data, cmp_pc, version_infos, response,
                   store_queried, inputs_objs>>
    /\ LET t == tasks[i]
           one == version_infos[t.k]
           n == IF o.kind = "return" THEN Normalize(o.value) ELSE o
           answer_result == (one.id :> n.value) @@ t.answer_result
       IN  IF o.kind = "raise"
           THEN /\ EndTask(i, [t EXCEPT !.pc = "raised",
                                  !.exc = [at |-> "process_graph_cached",
                                           text |-> o.text]])
                /\ UNCHANGED <<res, exec_calls, exec_count>>
           ELSE IF n.kind = "raise"
           THEN /\ EndTask(i, [t EXCEPT !.pc = "raised",
                                  !.exc = [at |-> "line 268", text |-> n.text]])
                /\ UNCHANGED <<res, exec_calls, exec_count>>
           ELSE IF t.k < Len(version_infos)
           THEN /\ tasks' = [tasks EXCEPT
                               ![i] = [t EXCEPT !.answer_result = answer_result,
                                                !.k = t.k + 1]]
                /\ exec_calls' = exec_calls \cup
                       {ExecCall(t.index, version_infos[t.k + 1],
                                 inputs_objs[t.inputs], t.tweaks)}
                /\ exec_count' = exec_count + 1
                /\ UNCHANGED <<res, gather>>
           ELSE /\ res' = WriteSlot(res, t.index, answer_result)
                /\ EndTask(i, [t EXCEPT !.answer_result = answer_result,
                                        !.pc = "done"])
                /\ UNCHANGED <<exec_calls, exec_count>>

\* ---------------------------------------------------------------------
\* Specification of the comparison
\* ---------------------------------------------------------------------
IdleRequest == [question_list |-> NoneList, version_list |-> NoneList,
                node_id |-> PyNone, inputs |-> <<>>, data |-> <<>>]

CompareFields ==
    /\ node_data = req.data
    /\ res = <<>>
    /\ version_infos = <<>>
    /\ tasks = <<>>
    /\ gather = [state |-> "none", exc |-> NoExc]
    /\ response = NoResponse
    /\ exec_calls = {}
    /\ store_queried = FALSE
    /\ inputs_objs = [r \in {0} |-> req.inputs]
    /\ exec_count = 0

\* no comparison is running
CompareIdle == req = IdleRequest /\ cmp_pc = "idle" /\ CompareFields

\* a comparison request has arrived
\* no result is being normalised, no calls are racing
NoNorm == [pc |-> "idle"]
NoRace == [pc |-> "idle"]
AuxIdle == norm = NoNorm /\ race = NoRace

CompareInit ==
    /\ AuxIdle
    /\ flow_status = [f \in FlowIds |-> DRAFT]
    /\ versions = InitVersions
    /\ next_id = NumFlows + 1
    /\ last = NoCall
    /\ req \in Requests
    /\ cmp_pc = "called"
    /\ CompareFields

CompareStart == compare_flow_node /\ UNCHANGED <<vmvars, auxvars>>
CompareResume == compare_flow_node_resume /\ UNCHANGED <<vmvars, auxvars>>
TaskStart == (\E i \in DOMAIN tasks : exec_flow_node(i)) /\ UNCHANGED <<vmvars, auxvars>>
\* pending process_graph_cached calls given up once the caller has returned
TaskResume_until_return ==
    /\ cmp_pc # "returned"
    /\ \E i \in DOMAIN tasks :
          /\ tasks[i].pc = "awaiting"
          /\ \E o \in ExecOutcomes(
                     process_tweaks(version_infos[tasks[i].k].data,
                                    tasks[i].tweaks),
                     inputs_objs[tasks[i].inputs],
                     version_infos[tasks[i].k].flow_id) :
                exec_flow_node_resume(i, o)
    /\ UNCHANGED <<vmvars, auxvars>>
TaskResume ==
    /\ \E i \in DOMAIN tasks :
          /\ tasks[i].pc = "awaiting"
          /\ \E o \in ExecOutcomes(
                     process_tweaks(version_infos[tasks[i].k].data,
                                    tasks[i].tweaks),
                     inputs_objs[tasks[i].inputs],
                     version_infos[tasks[i].k].flow_id) :
                exec_flow_node_resume(i, o)
    /\ UNCHANGED <<vmvars, auxvars>>

CompareNext ==
    \/ CompareStart
    \/ CompareResume
    \/ TaskStart
    \/ TaskResume

SpecCompare == CompareInit /\ [][CompareNext]_allvars

\* the event loop runs every task that is ready and resumes the awaiting
\* caller once the gathered future is settled; whether a pending
\* process_graph_cached call ever comes back is left open
SpecCompareFair ==
    /\ SpecCompare
    /\ WF_allvars(CompareStart)
    /\ WF_allvars(CompareResume)
    /\ WF_allvars(TaskStart)

\* ---------------------------------------------------------------------
\* Specification of the version lifecycle
\* ---------------------------------------------------------------------
LifecycleInit ==
    /\ flow_status \in [FlowIds -> {DRAFT, ONLINE}]
    /\ versions = InitVersions
    /\ next_id = NumFlows + 1
    /\ last = NoCall

Init == LifecycleInit /\ CompareIdle /\ AuxIdle

DeleteVersion ==
    /\ \E u \in Users, vid \in VersionArgs : delete_version(u, vid)
    /\ UNCHANGED <<cmpvars, auxvars>>
ChangeCurrentVersion ==
    /\ \E u \in Users, fid \in FlowArgs, vid \in VersionArgs :
          change_current_version(u, fid, vid)
    /\ UNCHANGED <<cmpvars, auxvars>>
CreateNewVersion ==
    /\ \E u \in Users, fid \in FlowArgs, b \in CreateBodies :
          create_new_version(u, fid, b)
    /\ UNCHANGED <<cmpvars, auxvars>>
UpdateVersionInfo ==
    /\ \E u \in Users, vid \in VersionArgs, b \in UpdateBodies :
          update_version_info(u, vid, b)
    /\ UNCHANGED <<cmpvars, auxvars>>

Next ==
    \/ DeleteVersion
    \/ ChangeCurrentVersion
    \/ CreateNewVersion
    \/ UpdateVersionInfo

Spec == Init /\ [][Next]_allvars

\* ---------------------------------------------------------------------
\* Specification of field-wise updates
\* ---------------------------------------------------------------------
\* request bodies of update_version_info in which every field is absent
\* (None), provided empty, or provided with a value
FieldBodies ==
    { [name |-> n, description |-> d, data |-> g] :
        n \in {PyNone, "", "b"}, d \in {PyNone, "", "d1"},
        g \in {PyNone, "", "g1"} }

UpdateFields ==
    /\ \E u \in Users, vid \in VersionArgs, b \in FieldBodies :
          update_version_info(u, vid, b)
    /\ UNCHANGED <<cmpvars, auxvars>>

SpecFields == Init /\ [][UpdateFields]_allvars

\* ---------------------------------------------------------------------
\* Specification of concurrent callers
\* ---------------------------------------------------------------------
\* a caller that has not entered the service yet
IdleCall == [pc |-> "idle", user |-> "owner", flow_id |-> 0, version_id |-> 0,
             version_info |-> NotFound]

\* lines 45-58 of delete_version: the reads and the tests made on them
delete_version_read(user, version_id) ==
    LET version_info == FlowVersionDao_get_version_by_id(version_id)
        flow_info == FlowDao_get_flow_by_id(version_info.flow_id)
        call == [IdleCall EXCEPT !.user = user, !.version_id = version_id,
                                 !.version_info = version_info]
        R(line, resp) ==
            /\ Respond("delete_version", user, 0, version_id, NoBody, line, resp)
            /\ race' = [race EXCEPT !.delete = [call EXCEPT !.pc = "done"]]
    IN  /\ race.pc = "racing"
        /\ race.delete.pc = "idle"
        /\ UNCHANGED <<flow_status, next_id, versions>>
        /\ IF version_info = NotFound
           THEN R(47, "NotFoundVersionError")
           ELSE IF flow_info = NotFound
           THEN R(51, "NotFoundFlowError")
           ELSE IF ~access_check(user, flow_info.user_id, flow_info.id)
           THEN R(55, "UnAuthorizedError")
           ELSE IF version_info.is_current
           THEN R(58, "CurVersionDelError")
           ELSE /\ race' = [race EXCEPT !.delete = [call EXCEPT !.pc = "tested"]]
                /\ UNCHANGED last

\* lines 60-61 of delete_version: the write
delete_version_write ==
    /\ race.pc = "racing"
    /\ race.delete.pc = "tested"
    /\ versions' = FlowVersionDao_delete_flow_version(race.delete.version_id)
    /\ Respond("delete_version", race.delete.user, 0, race.delete.version_id,
               NoBody, 61, "resp_200")
    /\ race' = [race EXCEPT !.delete.pc = "done"]
    /\ UNCHANGED <<flow_status, next_id>>

\* lines 68-85 of change_current_version: the reads and the tests
change_current_version_read(user, flow_id, version_id) ==
    LET flow_info == FlowDao_get_flow_by_id(flow_id)
        version_info == FlowVersionDao_get_version_by_id(version_id)
        call == [IdleCall EXCEPT !.user = user, !.flow_id = flow_id,
                                 !.version_id = version_id,
                                 !.version_info = version_info]
        R(line, resp) ==
            /\ Respond("change_current_version", user, flow_id, version_id,
                       NoBody, line, resp)
            /\ race' = [race EXCEPT !.change = [call EXCEPT !.pc = "done"]]
    IN  /\ race.pc = "racing"
        /\ race.change.pc = "idle"
        /\ UNCHANGED <<flow_status, next_id, versions>>
        /\ IF flow_info = NotFound
           THEN R(70, "NotFoundFlowError")
           ELSE IF ~access_check(user, flow_info.user_id, flow_info.id)
           THEN R(74, "UnAuthorizedError")
           ELSE IF flow_info.status = ONLINE
           THEN R(78, "FlowOnlineEditError")
           ELSE IF version_info = NotFound
           THEN R(83, "NotFoundVersionError")
           ELSE IF version_info.is_current
           THEN R(85, "resp_200")
           ELSE /\ race' = [race EXCEPT !.change = [call EXCEPT !.pc = "tested"]]
                /\ UNCHANGED last

\* lines 88-89 of change_current_version: the write
change_current_version_write ==
    /\ race.pc = "racing"
    /\ race.change.pc = "tested"
    /\ versions' = FlowVersionDao_change_current_version(
                       race.change.flow_id, race.change.version_info)
    /\ Respond("change_current_version", race.change.user, race.change.flow_id,
               race.change.version_id, NoBody, 89, "resp_200")
    /\ race' = [race EXCEPT !.change.pc = "done"]
    /\ UNCHANGED <<flow_status, next_id>>

\* a store in which flow 1 has a second, non-current version
RaceVersions ==
    InitVersions \cup
    { [id |-> NumFlows + 1, flow_id |-> 1, name |-> "b", description |-> "d0",
       data |-> "g0", is_current |-> FALSE] }

RaceInit ==
    /\ flow_status \in [FlowIds -> {DRAFT, ONLINE}]
    /\ versions = RaceVersions
    /\ next_id = NumFlows + 2
    /\ last = NoCall
    /\ CompareIdle
    /\ norm = NoNorm
    /\ race = [pc |-> "racing", delete |-> IdleCall, change |-> IdleCall]

DeleteRead ==
    /\ \E user \in Users, version_id \in VersionArgs :
          delete_version_read(user, version_id)
    /\ UNCHANGED <<cmpvars, norm>>
DeleteWrite == delete_version_write /\ UNCHANGED <<cmpvars, norm>>
ChangeRead ==
    /\ \E user \in Users, flow_id \in FlowArgs, version_id \in VersionArgs :
          change_current_version_read(user, flow_id, version_id)
    /\ UNCHANGED <<cmpvars, norm>>
ChangeWrite == change_current_version_write /\ UNCHANGED <<cmpvars, norm>>

RaceNext ==
    \/ DeleteRead
    \/ DeleteWrite
    \/ ChangeRead
    \/ ChangeWrite

SpecRace == RaceInit /\ [][RaceNext]_allvars

\* ---------------------------------------------------------------------
\* Specification of the result normalisation
\* ---------------------------------------------------------------------
\* what a result entry or a result facet may hold
ResultEntries ==
    { PDict(<< <<"a", PStr("42")>> >>),
      PDict(<< <<"a", PStr("42")>>, <<"b", PStr("7")>> >>),
      PDict(<< <<"b", PStr("7")>>, <<"a", PStr("42")>> >>),
      PDict(<<>>),
      PStr("text") }
\* the items of a returned mapping
ResultItems ==
    { <<>>, << <<"error", PStr("x")>> >> }
    \cup { << <<"result", e>> >> : e \in ResultEntries }
    \cup { << <<"code", PStr("0")>>, <<"result", e>> >> : e \in ResultEntries }
\* the attributes of a returned object
ResultAttrs ==
    { << <<"session_id", PStr(PyNone)>> >> }
    \cup { << <<"result", e>> >> : e \in ResultEntries }
    \cup { << <<"result", e>>, <<"session_id", PStr(PyNone)>> >> :
             e \in ResultEntries }
\* the values process_graph_cached may return
NormResults ==
    { PDict(i) : i \in ResultItems }
    \cup { PObject(a) : a \in ResultAttrs }
    \cup { PDictObject(i, << <<"result", e>>, <<"session_id", PStr(PyNone)>> >>) :
             i \in ResultItems, e \in ResultEntries }
    \cup { PStr("oops") }

NormalizeInit ==
    /\ LifecycleInit
    /\ CompareIdle
    /\ race = NoRace
    /\ \E r \in NormResults : norm = [pc |-> "called", result |-> r]

\* lines 260-268 applied to the result at hand
NormalizeResult ==
    /\ norm.pc = "called"
    /\ norm' = [pc |-> "done", result |-> norm.result,
                outcome |-> Normalize(norm.result)]
    /\ UNCHANGED <<vmvars, cmpvars, race>>

SpecNormalize == NormalizeInit /\ [][NormalizeResult]_allvars

\* ---------------------------------------------------------------------
\* Properties of the version lifecycle
\* ---------------------------------------------------------------------
\* the current versions of a flow
Currents(f) == { v \in versions : v.flow_id = f /\ v.is_current }
\* the row a call's version_id names, before the call
Target(call) == FlowVersionDao_get_version_by_id(call.version_id)
\* the caller has write access to flow f
CanWrite(user, f) ==
    access_check(user, FlowDao_get_flow_by_id(f).user_id, f)
\* is_current of every row, by id
CurrentFlags(vs) == { <<v.id, v.is_current>> : v \in vs }

\* C1: every flow has exactly one version with is_current = true, after any
\* sequence of create, update, set-current and delete calls.
C1_SingleCurrent ==
    \A f \in FlowIds : Cardinality(Currents(f)) = 1

\* C2 (as stated): delete_version on a current version returns
\* CurVersionDelError and keeps the version, whoever the caller is.
C2_DeleteCurrentAlwaysConflict ==
    [][ (/\ last'.op = "delete_version"
         /\ Target(last') # NotFound
         /\ Target(last').is_current)
        => (/\ last'.resp = "CurVersionDelError"
            /\ Target(last') \in versions') ]_vmvars

\* C2 (amended): delete_version on a current version of an existing flow
\* returns CurVersionDelError to a caller with write access to the owning
\* flow and UnAuthorizedError to any other caller; in both cases the store is
\* left as it was.
C2_DeleteCurrentRejected ==
    [][ (/\ last'.op = "delete_version"
         /\ Target(last') # NotFound
         /\ Target(last').is_current
         /\ Target(last').flow_id \in FlowIds)
        => (/\ last'.resp = IF CanWrite(last'.user, Target(last').flow_id)
                            THEN "CurVersionDelError"
                            ELSE "UnAuthorizedError"
            /\ versions' = versions) ]_vmvars

\* a writer's delete of a current version was refused at line 58
C2_Witness ==
    /\ last.op = "delete_version"
    /\ last.line = 58
    /\ Target(last) \in versions
    /\ Target(last).is_current

\* C3: no two distinct versions of one flow have the same name.
C3_NameUnique ==
    \A v, w \in versions :
        (v.flow_id = w.flow_id /\ v.name = w.name) => v.id = w.id

C5_OnlineEditLock ==
    [][ /\ (/\ last'.op = "update_version_info"
            /\ Target(last') # NotFound
            /\ Target(last').is_current
            /\ CanWrite(last'.user, Target(last').flow_id))
           => IF flow_status[Target(last').flow_id] = ONLINE
              THEN last'.resp = "FlowOnlineEditError" /\ versions' = versions
              ELSE last'.resp = "resp_200"
        /\ (/\ last'.op = "change_current_version"
            /\ last'.flow_id \in FlowIds
            /\ CanWrite(last'.user, last'.flow_id)
            /\ Target(last') # NotFound)
           => IF flow_status[last'.flow_id] = ONLINE
              THEN last'.resp = "FlowOnlineEditError" /\ versions' = versions
              ELSE last'.resp = "resp_200"
        /\ \A f \in FlowIds :
              (flow_status[f] = ONLINE /\ flow_status'[f] = ONLINE)
              => { v \in versions' : v.flow_id = f /\ v.is_current }
                 = Currents(f) ]_vmvars

\* C6: create_new_version by a writer on an existing flow returns
\* VersionNameExistsError and adds nothing when a version of that flow has
\* the name; otherwise it succeeds and adds exactly one version, of that
\* flow, with the given name and is_current = false, every other row kept.
C6_CreateVersion ==
    [][ (/\ last'.op = "create_new_version"
         /\ last'.flow_id \in FlowIds
         /\ CanWrite(last'.user, last'.flow_id))
        => IF \E v \in versions : /\ v.flow_id = last'.flow_id
                                  /\ v.name = last'.body.name
           THEN last'.resp = "VersionNameExistsError" /\ versions' = versions
           ELSE /\ last'.resp = "resp_200"
                /\ \E nv \in versions' \ versions :
                      /\ versions' = versions \cup {nv}
                      /\ nv.flow_id = last'.flow_id
                      /\ nv.name = last'.body.name
                      /\ ~nv.is_current
                /\ \A f \in FlowIds :
                      { v \in versions' : v.flow_id = f /\ v.is_current }
                      = Currents(f) ]_vmvars

\* a version was just created, and it is not current
C6_Witness ==
    /\ last.op = "create_new_version"
    /\ last.line = 113
    /\ \E v \in versions : /\ v.id = next_id - 1
                           /\ v.flow_id = last.flow_id
                           /\ v.name = last.body.name
                           /\ ~v.is_current

\* ---------------------------------------------------------------------
\* Properties of the comparison
\* ---------------------------------------------------------------------
Questions == req.question_list.items
FetchedIds == { version_infos[k].id : k \in DOMAIN version_infos }
\* the template has a field the question can go to
Substitutable == \E p \in DOMAIN req.inputs : req.inputs[p][1] \notin {"data", "id"}
\* the request meets one of the three empty-result preconditions
EmptyRequest ==
    \/ ~req.question_list.present
    \/ req.question_list.items = <<>>
    \/ ~req.version_list.present
    \/ req.version_list.items = <<>>
    \/ req.node_id = PyNone
\* answer a was computed from question i and from no other question
AnsweredFor(a, i) ==
    /\ Substitutable => \E p \in DOMAIN a.inputs : a.inputs[p][2] = Questions[i]
    /\ \A j \in DOMAIN Questions \ {i} :
          \A p \in DOMAIN a.inputs : a.inputs[p][2] # Questions[j]

\* C7: a successful comparison returns one slot per question, and slot i
\* maps every fetched version to an answer computed from question i (or to
\* the sentinel), whatever the order in which the tasks completed.
C7_OrderPreserved ==
    (cmp_pc = "returned" /\ response.status_code = 200 /\ store_queried)
    => /\ Len(response.data) = Len(Questions)
       /\ \A i \in DOMAIN response.data :
             /\ DOMAIN response.data[i] = FetchedIds
             /\ \A vid \in DOMAIN response.data[i] :
                   \/ response.data[i][vid] = Sentinel
                   \/ /\ response.data[i][vid].type = "answer"
                      /\ AnsweredFor(response.data[i][vid], i)

\* a successful comparison of two questions whose second task finished first
C7_Witness ==
    /\ cmp_pc = "returned"
    /\ response.status_code = 200
    /\ Len(tasks) >= 2
    /\ Substitutable
    /\ tasks[2].rank < tasks[1].rank
    /\ \A i \in DOMAIN response.data :
          \E vid \in DOMAIN response.data[i] :
             response.data[i][vid].type = "answer"

\* C8: once a process_graph_cached call of some task has raised, what
\* compare_flow_node returns is the failure response with the text of a
\* raised exception, and it carries no answer array.
C8_FailFast ==
    (/\ cmp_pc = "returned"
     /\ \E i \in DOMAIN tasks : /\ tasks[i].pc = "raised"
                                /\ tasks[i].exc.at = "process_graph_cached")
    => /\ response.status_code = 500
       /\ DOMAIN response = {"status_code", "message"}
       /\ \E i \in DOMAIN tasks : /\ tasks[i].pc = "raised"
                                  /\ response.message.cause = tasks[i].exc.text

\* the comparison failed on an executor exception although another task had
\* already written its answers
C8_Witness ==
    /\ cmp_pc = "returned"
    /\ response.status_code = 500
    /\ \E i \in DOMAIN tasks : /\ tasks[i].pc = "raised"
                               /\ tasks[i].exc.at = "process_graph_cached"
                               /\ response.message.cause = tasks[i].exc.text
    /\ \E j \in DOMAIN tasks : tasks[j].pc = "done" /\ res[j] # EmptyMap

\* C9: when no process_graph_cached call raised, whatever the calls
\* returned, compare_flow_node returns the full answer array.
C9_AnyShapeSucceeds ==
    (/\ cmp_pc = "returned"
     /\ store_queried
     /\ \A i \in DOMAIN tasks : tasks[i].exc.at # "process_graph_cached")
    => /\ response.status_code = 200
       /\ Len(response.data) = Len(Questions)

\* C10: a request with an empty or absent question_list, an empty or absent
\* version_list or no node_id gets the empty array at once: no task, no
\* store read, no executor call, and inputs['data'] left as submitted.
C10_EmptyRequest ==
    (cmp_pc # "idle" /\ EmptyRequest)
    => /\ cmp_pc \in {"called", "returned"}
       /\ tasks = <<>>
       /\ ~store_queried
       /\ exec_calls = {}
       /\ node_data = req.data
       /\ cmp_pc = "returned" => response = resp_200(<<>>)

\* a request lacking only its node_id, with file-input overrides, was answered
C10_Witness ==
    /\ cmp_pc = "returned"
    /\ req.node_id = PyNone
    /\ req.question_list.present /\ Len(req.question_list.items) > 0
    /\ req.version_list.present /\ Len(req.version_list.items) > 0
    /\ \E i \in DOMAIN req.data : req.data[i] = InputFileRecord
    /\ response = resp_200(<<>>)

\* the requested version ids that have a row in the store
ExistingRequested ==
    { req.version_list.items[k] : k \in DOMAIN req.version_list.items }
    \cap { v.id : v \in versions }

\* C11: a successful comparison maps, in every slot, exactly the requested
\* version ids that exist in the store (no key at all when none exists), and
\* a failure response only ever comes from a task that raised while serving
\* an existing version, never from a requested id without a row.
C11_MissingVersionsExcluded ==
    (cmp_pc = "returned" /\ store_queried)
    => /\ response.status_code = 200
          => \A i \in DOMAIN response.data :
                DOMAIN response.data[i] = ExistingRequested
       /\ response.status_code # 200
          => /\ ExistingRequested # {}
             /\ \E i \in DOMAIN tasks :
                   /\ tasks[i].pc = "raised"
                   /\ version_infos[tasks[i].k].id \in ExistingRequested
       /\ ExistingRequested = {}
          => /\ response.status_code = 200
             /\ \A i \in DOMAIN response.data : response.data[i] = EmptyMap

\* a successful comparison of a request naming a missing and an existing id
C11_Witness ==
    /\ cmp_pc = "returned"
    /\ store_queried
    /\ response.status_code = 200
    /\ \E k \in DOMAIN req.version_list.items :
          req.version_list.items[k] = MissingId
    /\ ExistingRequested = {1}
    /\ \A i \in DOMAIN response.data : DOMAIN response.data[i] = {1}

\* the value field f of row `old` takes when a body provides `given` for it
Applied(given, old) == IF given = PyNone THEN old ELSE given

\* C12: a successful update_version_info keeps every field the body leaves
\* out, replaces every field the body provides, an empty value included, and
\* never changes the id, flow_id or is_current of the row, nor any other row.
C12_UpdateAppliesProvided ==
    [][ (last'.op = "update_version_info" /\ last'.line = 142)
        => LET old == Target(last')
               new == CHOOSE v \in versions' : v.id = last'.version_id
           IN  /\ \E v \in versions' : v.id = last'.version_id
               /\ new.name = Applied(last'.body.name, old.name)
               /\ new.description =
                      Applied(last'.body.description, old.description)
               /\ new.data = Applied(last'.body.data, old.data)
               /\ new.id = old.id
               /\ new.flow_id = old.flow_id
               /\ new.is_current = old.is_current
               /\ versions' \ {new} = versions \ {old} ]_vmvars

C14_SlotOwnership ==
    /\ [](store_queried
          => /\ Len(res) = Len(Questions)
             /\ \A i \in DOMAIN res :
                   \/ res[i] = EmptyMap
                   \/ /\ tasks[i].pc = "done"
                      /\ res[i] = tasks[i].answer_result
                      /\ DOMAIN res[i] = FetchedIds)
    /\ [][store_queried
          => \A i \in DOMAIN res :
                res'[i] # res[i]
                => /\ res[i] = EmptyMap
                   /\ tasks[i].pc = "awaiting"
                   /\ tasks[i].k = Len(version_infos)
                   /\ tasks'[i].pc = "done"
                   /\ \A j \in DOMAIN res \ {i} : res'[j] = res[j] ]_allvars

\* one task has written its complete map while another, with one answer
\* already collected, still awaits its second call
C14_Witness ==
    /\ store_queried
    /\ Len(version_infos) = 2
    /\ \E i, j \in DOMAIN tasks :
          /\ tasks[i].pc = "done"
          /\ DOMAIN res[i] = FetchedIds
          /\ tasks[j].pc = "awaiting"
          /\ tasks[j].k = 2
          /\ tasks[j].answer_result # EmptyMap
          /\ res[j] = EmptyMap

\* the result is a mapping with a non-empty mapping as its result entry
EntryRule(r) ==
    /\ IsDict(r)
    /\ HasKey(r.items, "result")
    /\ IsDict(Lookup(r.items, "result"))
    /\ Lookup(r.items, "result").items # <<>>
\* the result has no result entry and exposes both facets
FacetRule(r) ==
    /\ ~(IsDict(r) /\ HasKey(r.items, "result"))
    /\ HasAttr(r, "result")
    /\ HasAttr(r, "session_id")

\* C15 (as stated): the answer is the first value of the result entry of a
\* mapping; otherwise, for a result with a result and a session_id facet, it
\* is the result facet itself; the entry rule wins when both apply.
C15_NormalizerTakesFacet ==
    norm.pc = "done"
    => /\ EntryRule(norm.result)
          => norm.outcome =
                 Returned(Lookup(norm.result.items, "result").items[1][2])
       /\ FacetRule(norm.result)
          => norm.outcome = Returned(Lookup(norm.result.attrs, "result"))

\* C15 (amended): the answer is the first value, in key order, of the result
\* entry of a mapping; otherwise, for a result with a result and a session_id
\* facet whose result facet is a non-empty mapping, it is the first value of
\* that facet; the entry rule wins when both apply.
C15_NormalizerPriority ==
    norm.pc = "done"
    => /\ EntryRule(norm.result)
          => norm.outcome =
                 Returned(Lookup(norm.result.items, "result").items[1][2])
       /\ (/\ FacetRule(norm.result)
           /\ IsDict(Lookup(norm.result.attrs, "result"))
           /\ Lookup(norm.result.attrs, "result").items # <<>>)
          => norm.outcome =
                 Returned(Lookup(norm.result.attrs, "result").items[1][2])

\* a result to which both rules apply, with different answers, was
\* normalised to the first value ("7") of its result entry
C15_Witness ==
    /\ norm.pc = "done"
    /\ norm.result =
          PDictObject(<< <<"result", PDict(<< <<"b", PStr("7")>>,
                                             <<"a", PStr("42")>> >>)>> >>,
                      << <<"result", PDict(<< <<"a", PStr("42")>> >>)>>,
                         <<"session_id", PStr(PyNone)>> >>)
    /\ norm.outcome = Returned(PStr("7"))

\* position p holds the first field of template d that takes the question
FirstField(d, p) ==
    /\ d[p][1] \notin {"data", "id"}
    /\ \A j \in 1..(p - 1) : d[j][1] \in {"data", "id"}
\* the inputs task i hands to the executor: the template less its data,
\* with the question in the first field only
ExpectedInputs(i) ==
    LET base == IF HasData(req.inputs) THEN Without(req.inputs, "data")
                ELSE req.inputs
    IN  [p \in DOMAIN base |->
            IF FirstField(base, p) THEN <<base[p][1], Questions[i]>>
            ELSE base[p]]

\* C16: in each task the question replaces the value of exactly one input
\* field, the first in key order whose key is neither data nor id, and no
\* other field is changed; a template without such a field is passed to the
\* executor unsubstituted and the task fails at no step of its own.
C16_QuestionSubstitution ==
    /\ \A c \in exec_calls : c.inputs = ExpectedInputs(c.index)
    /\ \A i \in DOMAIN tasks :
          tasks[i].pc # "created"
          => /\ inputs_objs[tasks[i].inputs] = ExpectedInputs(i)
             /\ version_infos # <<>>
                => \E c \in exec_calls : c.index = i
             /\ (~Substitutable /\ HasData(req.inputs))
                => inputs_objs[tasks[i].inputs] = Without(req.inputs, "data")
             /\ tasks[i].pc = "raised"
                => tasks[i].exc.at \in {"process_graph_cached", "line 268"}

\* a template whose first two keys are reserved and which has two further
\* fields: both tasks ran against both versions and the comparison returned
C16_Witness ==
    /\ cmp_pc = "returned"
    /\ response.status_code = 200
    /\ Len(tasks) = 2
    /\ Len(version_infos) = 2
    /\ req.inputs[1][1] = "id"
    /\ HasKey(req.inputs, "query")
    /\ HasKey(req.inputs, "input")
    /\ \A i \in DOMAIN tasks :
          \E c \in exec_calls :
             /\ c.index = i
             /\ Lookup(c.inputs, "query") = Questions[i]
             /\ Lookup(c.inputs, "input") = "y"

\* the comparison has returned the answer array of a request that reached
\* the executor stage
Succeeded ==
    /\ cmp_pc = "returned"
    /\ store_queried
    /\ response.status_code = 200
\* one call per (question index, fetched version), all session-less with
\* history window 10, and the same tweaks on every call of a task
CallAccounting ==
    /\ exec_count = Len(Questions) * Len(version_infos)
    /\ \A i \in DOMAIN Questions : \A k \in DOMAIN version_infos :
          \E c \in exec_calls :
             /\ c.index = i
             /\ c.version_id = version_infos[k].id
             /\ c.flow_id = version_infos[k].flow_id
    /\ Cardinality(exec_calls) = exec_count
    /\ \A c \in exec_calls :
          /\ c.session_id = PyNone
          /\ c.history_count = 10
    /\ \A c, d \in exec_calls :
          c.index = d.index => c.graph_data.tweaks = d.graph_data.tweaks

\* C17 (as stated): in a successful comparison the executor is invoked
\* exactly once per (question index, fetched version), every call with no
\* session id and history window 10, the tweaks of a task are the same for
\* every version, and the inputs passed no longer contain the data field.
C17_CallsCarryNoData ==
    Succeeded
    => /\ CallAccounting
       /\ \A c \in exec_calls : ~HasKey(c.inputs, "data")

\* C17 (amended): as above, except that the data field is removed from the
\* inputs only when its value is not None; a data field holding None is
\* passed to the executor as it is.
C17_CallAccounting ==
    Succeeded
    => /\ CallAccounting
       /\ \A c \in exec_calls :
             HasKey(c.inputs, "data") <=> /\ HasKey(req.inputs, "data")
                                          /\ ~HasData(req.inputs)

\* two questions against two versions with override records: four calls
C17_Witness ==
    /\ Succeeded
    /\ Len(Questions) = 2
    /\ Len(version_infos) = 2
    /\ HasData(req.inputs)
    /\ Len(node_data) = 2
    /\ exec_count = 4
    /\ \A c \in exec_calls : c.graph_data.tweaks # {}

\* some task has not finished and no task has raised
Stalled ==
    /\ \E i \in DOMAIN tasks : tasks[i].pc \in {"created", "awaiting"}
    /\ \A j \in DOMAIN tasks : tasks[j].pc # "raised"

\* C18: if every executor call eventually returns or raises, compare
\* eventually returns the answer array or a failure; while some call has not
\* returned and no task has raised, compare does not return, even when every
\* other task has finished.
C18_Completion ==
    /\ WF_allvars(TaskResume)
       => <>(cmp_pc = "returned" /\ response.status_code \in {200, 500})
    /\ [](Stalled => cmp_pc # "returned")

\* one task has finished, the other waits for the executor, nothing was
\* raised and the caller is still waiting
C18_Witness ==
    /\ cmp_pc = "awaiting"
    /\ Len(tasks) = 2
    /\ tasks[1].pc = "done"
    /\ tasks[2].pc = "awaiting"
    /\ gather.state = "pending"

\* C19: when the request's inputs carry a non-empty data list, every
\* override record gets its id from its own nodeId, every record whose id
\* contains InputFile gets file_path equal to its value, value itself is
\* kept, and the records of other nodes get no file_path.
C19_Preprocessing ==
    (store_queried /\ HasData(req.inputs) /\ req.data # <<>>)
    => /\ Len(node_data) = Len(req.data)
       /\ \A r \in DOMAIN req.data :
             /\ node_data[r].nodeId = req.data[r].nodeId
             /\ node_data[r].id = req.data[r].nodeId
             /\ node_data[r].value = req.data[r].value
             /\ node_data[r].file_path =
                   IF ContainsInputFile(req.data[r].nodeId)
                   THEN req.data[r].value
                   ELSE PyNone
       /\ \A c \in exec_calls :
             c.graph_data.tweaks = process_node_data(node_data)

\* a file-input record and a variable record went through the
\* pre-processing and reached the executor as tweaks
C19_Witness ==
    /\ store_queried
    /\ Len(node_data) = 2
    /\ node_data[1].id = "InputFileNode-1"
    /\ node_data[1].file_path = "f.pdf"
    /\ node_data[1].value = "f.pdf"
    /\ node_data[2].id = "VariableNode-2"
    /\ node_data[2].file_path = PyNone
    /\ \E c \in exec_calls :
          [id |-> "InputFileNode-1", value |-> "f.pdf",
           file_path |-> "f.pdf"] \in c.graph_data.tweaks

\* the change_current_version call in flight, if any, names a version of
\* the flow it names
SameFlowChange ==
    \/ race.change.pc = "idle"
    \/ race.change.version_info = NotFound
    \/ race.change.version_info.flow_id = race.change.flow_id

\* C20: with the store reads and writes of a delete_version call and a
\* change_current_version call on a version of the same flow interleaved in
\* any order, no row is removed from the store while it is current, and
\* the flow of a current row is never left without a current version.
C20_CurrentNeverDeleted ==
    [][SameFlowChange
       => \A v \in versions :
             v.is_current
             => /\ \E w \in versions' : w.id = v.id
                /\ \E w \in versions' : w.flow_id = v.flow_id /\ w.is_current
      ]_allvars

\* compare has returned a failure because a task raised
FailedFast ==
    /\ cmp_pc = "returned"
    /\ store_queried
    /\ response.status_code = 500
\* task i is at an end: raised, or done with its slot written
AtEnd(i) ==
    \/ tasks[i].pc = "raised"
    \/ /\ tasks[i].pc = "done"
       /\ res[i] = tasks[i].answer_result
       /\ \A k \in DOMAIN version_infos :
             \E c \in exec_calls : /\ c.index = i
                                   /\ c.version_id = version_infos[k].id

\* C21: when compare returns a failure because one task raised, the other
\* tasks still in flight are not cancelled: each stays runnable, and, its
\* executor calls coming back, goes on through its remaining versions to
\* write its slot (or to raise) after compare has returned.
C21_SiblingsNotCancelled ==
    /\ []((FailedFast /\ \E i \in DOMAIN tasks : tasks[i].pc = "awaiting")
          => ENABLED TaskResume)
    /\ []((FailedFast /\ \E i \in DOMAIN tasks : tasks[i].pc = "created")
          => ENABLED TaskStart)
    /\ WF_allvars(TaskResume)
       => (FailedFast ~> (\A i \in DOMAIN tasks : AtEnd(i)))

\* task 1 raised and compare returned the failure; task 2 then went on
\* through both versions and wrote its slot
C21_Witness ==
    /\ FailedFast
    /\ Len(tasks) = 2
    /\ Len(version_infos) = 2
    /\ tasks[1].pc = "raised"
    /\ tasks[2].pc = "done"
    /\ tasks[2].after_return
    /\ DOMAIN res[2] = FetchedIds
    /\ Cardinality({ c \in exec_calls : c.index = 2 }) = 2

\* the failure envelopes of the four operations
Failures ==
    {"NotFoundVersionError", "NotFoundFlowError", "UnAuthorizedError",
     "FlowOnlineEditError", "CurVersionDelError", "VersionNameExistsError"}

\* C22: a delete_version, change_current_version, create_new_version or
\* update_version_info call that returns a failure envelope writes nothing:
\* the set of versions and all their fields are as before the call.
C22_FailureLeavesStore ==
    [][ last'.resp \in Failures
        => /\ versions' = versions
           /\ next_id' = next_id
           /\ flow_status' = flow_status ]_vmvars

\* an update that would have renamed the current version of an online flow
\* was refused, and the version still has its name
C22_Witness ==
    /\ last.op = "update_version_info"
    /\ last.line = 135
    /\ last.resp \in Failures
    /\ Truthy(last.body.name)
    /\ Target(last) \in versions
    /\ Target(last).name # last.body.name

====
